---- MODULE Spec2Model ----
(***************************************************************************)
(* openmmtools/integrators.py: custom integrators, each a constructor that *)
(* registers variables and appends instructions to a CustomIntegrator      *)
(* program, which the dynamics engine replays once per step() call.        *)
(*                                                                         *)
(* Numbers.  The engine computes in floating point.  Here a number is an   *)
(* integer of a fixed grid or NaN; every operator propagates NaN the way   *)
(* IEEE arithmetic does (NaN*0 is NaN, every comparison with NaN is false) *)
(* and a quotient is rounded to the grid (exact whenever it divides).      *)
(* Strings are sequences of one-character strings.                         *)
(***************************************************************************)
EXTENDS Integers, Sequences, FiniteSets, TLC

VARIABLES
    integrator,  \* class of the constructed object: "none" before, "failed" when __init__ raised
    args,        \* the constructor's arguments
    prog,        \* the CustomIntegrator program: the instructions in the order added
    glob,        \* global variables (addGlobalVariable): name -> value
    perdof,      \* per-DOF variables (addPerDofVariable): name -> [DOF -> value]
    x,           \* context positions, per DOF
    v,           \* context velocities, per DOF
    uniform,     \* the value `uniform` took in the last global expression that read it (numerator, see Uniform)
    context,     \* TRUE once a Context holds the integrator and positions and velocities are set
    pc,          \* 0: no step() call in progress; k: instruction k of prog runs next
    calls        \* step() calls started so far

vars == <<integrator, args, prog, glob, perdof, x, v, uniform, context, pc, calls>>

(***************************************************************************)
(* Bounds of the model.                                                    *)
(***************************************************************************)
NDof == 1        \* degrees of freedom of the simulated system
MaxCalls == 2    \* step() calls per behaviour
MaxNsteps == 2   \* largest nsteps argument of HMCIntegrator
MaxLen == 4      \* longest splitting string
XMax == 2        \* positions beyond +-XMax are outside the engine's finite range
NComp == 2       \* Cartesian components of the particle of the Andersen runs

DOFs == 1..NDof

(***************************************************************************)
(* Floating-point values.                                                  *)
(***************************************************************************)
NaN == 0 - 1000000

IsNaN(a) == a = NaN

\* IEEE ==: false as soon as one side is NaN
FloatEq(a, b) == ~IsNaN(a) /\ ~IsNaN(b) /\ a = b

Add(a, b) == IF IsNaN(a) \/ IsNaN(b) THEN NaN ELSE a + b
Sub(a, b) == IF IsNaN(a) \/ IsNaN(b) THEN NaN ELSE a - b
Mul(a, b) == IF IsNaN(a) \/ IsNaN(b) THEN NaN ELSE a * b
Neg(a) == IF IsNaN(a) THEN NaN ELSE 0 - a
\* a/b rounded to the grid; x/0 is not finite
Div(a, b) == IF IsNaN(a) \/ IsNaN(b) \/ b = 0 THEN NaN ELSE a \div b

\* sqrt on the grid: the largest r with r*r <= a; sqrt of a negative number is NaN
Sqrt(a) ==
    IF IsNaN(a) \/ a < 0 THEN NaN
    ELSE CHOOSE r \in 0..a : r * r <= a /\ (r + 1) * (r + 1) > a

\* step() that is 1 only for x > 0
Step_Strict(a) == IF IsNaN(a) THEN 0 ELSE IF a > 0 THEN 1 ELSE 0

\* Lepton's step(x): 0 if x < 0, 1 otherwise; computed as (x >= 0 ? 1 : 0), so step(NaN) = 0
Step(a) == IF IsNaN(a) THEN 0 ELSE IF a >= 0 THEN 1 ELSE 0

\* Lepton's delta(x): 1 if x is 0, 0 otherwise; computed as (x == 0 ? 1 : 0), so delta(NaN) = 0
Delta(a) == IF IsNaN(a) THEN 0 ELSE IF a = 0 THEN 1 ELSE 0

\* the largest magnitude a register holds, on the grid: twice it is no longer
\* finite.  Non-finite values are all written NaN: in these programs a product
\* or a difference of one is NaN, and a comparison with one rejects the move.
FloatMax == 2 ^ (2 * MaxCalls + 1)

Overflow(a) == IF IsNaN(a) \/ a > FloatMax \/ a < 0 - FloatMax THEN NaN ELSE a

(***************************************************************************)
(* exp() and the uniform draw share one fixed-point scale: a uniform draw  *)
(* u of [0,1) is one of 0/4, 1/4, 2/4, 3/4, held as its numerator, and     *)
(* Exp4(p, q) is 4*exp(p/q) rounded to the nearest integer.  step(a - b)   *)
(* depends only on the sign of a - b, so comparing the two numerators is   *)
(* comparing the two numbers.  exp underflows to 0 for large negative      *)
(* arguments and is at least 1 (numerator 4) for arguments >= 0.           *)
(***************************************************************************)
Uniform == 0..3

ExpTable == <<2, 1, 1, 1>>        \* 4*exp(-h/2) rounded to the nearest integer, h = 1..4; 0 beyond
ExpTablePos == <<7, 11, 18, 30>>  \* 4*exp(+h/2) rounded, h = 1..4; saturates beyond

Exp4(p, q) ==
    IF IsNaN(p) \/ IsNaN(q) \/ q = 0 THEN NaN
    ELSE LET h == (2 * p) \div q      \* the argument p/q in halves
         IN  IF h = 0 THEN 4
             ELSE IF h > 0 THEN ExpTablePos[IF h > Len(ExpTablePos) THEN Len(ExpTablePos) ELSE h]
             ELSE IF 0 - h > Len(ExpTable) THEN 0
             ELSE ExpTable[0 - h]

\* the values gaussian takes, per DOF
Gaussian == {0 - 1, 0, 1}

(***************************************************************************)
(* The dynamics engine's system: NDof harmonic degrees of freedom of mass  *)
(* 2 (the tests' HarmonicOscillator), potential x^2 each, force -2x.  A    *)
(* position outside +-XMax is outside the range where the engine's         *)
(* arithmetic stays finite: energy and forces are NaN there ("the          *)
(* simulation has exploded", check_stability).                             *)
(***************************************************************************)
Mass == [i \in DOFs |-> 2]

Finite(pos) == \A i \in DOFs : ~IsNaN(pos[i]) /\ pos[i] >= 0 - XMax /\ pos[i] <= XMax

RECURSIVE SumTo(_, _)
SumTo(term, k) == IF k = 0 THEN 0 ELSE Add(term[k], SumTo(term, k - 1))

\* `energy` in an expression: the potential energy of the current positions
PotentialEnergy(pos) ==
    IF ~Finite(pos) THEN NaN ELSE SumTo([i \in DOFs |-> pos[i] * pos[i]], NDof)

\* `f` in a per-DOF expression: the force of the current positions on DOF i
Force(pos, i) == IF ~Finite(pos) THEN NaN ELSE 0 - 2 * pos[i]

\* addConstrainPositions / addConstrainVelocities: the system has no constraints
ProjectPositions(pos) == pos
ProjectVelocities(vel) == vel

(***************************************************************************)
(* CustomIntegrator's program: what each add... call appends.  An          *)
(* expression is kept as the text the source passes; `n` is the number     *)
(* str.format puts in place of {n_A} or {n_B} (0 when there is none).      *)
(***************************************************************************)
Instr(op, var, expr, n) == [op |-> op, var |-> var, expr |-> expr, n |-> n]

addUpdateContextState == Instr("UpdateContextState", "", "", 0)
addConstrainPositions == Instr("ConstrainPositions", "", "", 0)
addConstrainVelocities == Instr("ConstrainVelocities", "", "", 0)
addComputePerDof(var, expr) == Instr("ComputePerDof", var, expr, 0)
addComputePerDofN(var, expr, n) == Instr("ComputePerDof", var, expr, n)
addComputeGlobal(var, expr) == Instr("ComputeGlobal", var, expr, 0)
addComputeSum(var, expr) == Instr("ComputeSum", var, expr, 0)
beginIfBlock(cond) == Instr("BeginIfBlock", "", cond, 0)
endBlock == Instr("EndBlock", "", "", 0)

ZeroPerDof == [i \in DOFs |-> 0]
NoVariables == [name \in {} |-> 0]

\* kT = kB * temperature, the temperature given in units of 1/kB
ThermalEnergy(temperature) == temperature

\* numpy.exp(-gamma * timestep), rounded to the grid: 1 for gamma = 0, 0 once exp underflows
MixingParameter(gamma, timestep) == Div(Exp4(Neg(Mul(gamma, timestep)), 1), 4)

(***************************************************************************)
(* MetropolisMonteCarloIntegrator.__init__                                 *)
(***************************************************************************)
MCGlobals(a) ==
    [naccept |-> 0, ntrials |-> 0, kT |-> ThermalEnergy(a.temperature),
     Eold |-> 0, Enew |-> 0, accept |-> 0]

MCPerDof(a) ==
    [sigma_x |-> [i \in DOFs |-> a.sigma], sigma_v |-> ZeroPerDof, xold |-> ZeroPerDof]

\* the momenta drawn after the snapshot instead of before it
MCProgram_SnapshotFirst ==
    << addUpdateContextState,
       addComputePerDof("xold", "x"),
       addComputeGlobal("Eold", "energy"),
       addComputePerDof("sigma_v", "sqrt(kT/m)"),
       addComputePerDof("v", "sigma_v*gaussian"),
       addConstrainVelocities,
       addComputePerDof("x", "x + sigma_x*gaussian"),
       addComputeGlobal("accept", "step(exp(-(energy-Eold)/kT) - uniform)"),
       addComputePerDof("x", "(1-accept)*xold + x*accept"),
       addComputeGlobal("naccept", "naccept + accept"),
       addComputeGlobal("ntrials", "ntrials + 1") >>

MCProgram ==
    << addUpdateContextState,
       addComputePerDof("sigma_v", "sqrt(kT/m)"),
       addComputePerDof("v", "sigma_v*gaussian"),
       addConstrainVelocities,
       addComputePerDof("xold", "x"),
       addComputeGlobal("Eold", "energy"),
       addComputePerDof("x", "x + sigma_x*gaussian"),
       addComputeGlobal("accept", "step(exp(-(energy-Eold)/kT) - uniform)"),
       addComputePerDof("x", "(1-accept)*xold + x*accept"),
       addComputeGlobal("naccept", "naccept + accept"),
       addComputeGlobal("ntrials", "ntrials + 1") >>

(***************************************************************************)
(* HMCIntegrator.__init__                                                  *)
(***************************************************************************)
HMCGlobals(a) ==
    [naccept |-> 0, ntrials |-> 0, kT |-> ThermalEnergy(a.temperature),
     ke |-> 0, Eold |-> 0, Enew |-> 0, accept |-> 0]

HMCPerDof(a) == [sigma |-> ZeroPerDof, xold |-> ZeroPerDof, x1 |-> ZeroPerDof]

\* the body without the copy of the positions into x1
HMCVerletStep_StaleX1 ==
    << addComputePerDof("v", "v+0.5*dt*f/m"),
       addComputePerDof("x", "x+dt*v"),
       addConstrainPositions,
       addComputePerDof("v", "v+0.5*dt*f/m+(x-x1)/dt"),
       addConstrainVelocities >>

\* the body of `for step in range(nsteps)`
HMCVerletStep ==
    << addComputePerDof("v", "v+0.5*dt*f/m"),
       addComputePerDof("x", "x+dt*v"),
       addComputePerDof("x1", "x"),
       addConstrainPositions,
       addComputePerDof("v", "v+0.5*dt*f/m+(x-x1)/dt"),
       addConstrainVelocities >>

\* one repetition fewer than asked for
RECURSIVE Repeat_OneLess(_, _)
Repeat_OneLess(block, k) == IF k <= 1 THEN << >> ELSE block \o Repeat_OneLess(block, k - 1)

RECURSIVE Repeat(_, _)
Repeat(block, k) == IF k <= 0 THEN << >> ELSE block \o Repeat(block, k - 1)

HMCProgram(nsteps) ==
    << addComputePerDof("sigma", "sqrt(kT/m)"),
       addUpdateContextState,
       addComputePerDof("v", "sigma*gaussian"),
       addConstrainVelocities,
       addComputeSum("ke", "0.5*m*v*v"),
       addComputeGlobal("Eold", "ke + energy"),
       addComputePerDof("xold", "x") >>
    \o Repeat(HMCVerletStep, nsteps) \o
    << addComputeSum("ke", "0.5*m*v*v"),
       addComputeGlobal("Enew", "ke + energy"),
       addComputeGlobal("accept", "step(exp(-(Enew-Eold)/kT) - uniform)"),
       addComputePerDof("x", "x*accept + xold*(1-accept)"),
       addComputeGlobal("naccept", "naccept + accept"),
       addComputeGlobal("ntrials", "ntrials + 1") >>

(***************************************************************************)
(* GHMCIntegrator.__init__                                                 *)
(***************************************************************************)
GHMCGlobals(a) ==
    [kT |-> ThermalEnergy(a.temperature),
     b |-> MixingParameter(a.collision_rate, a.timestep),
     ke |-> 0, Eold |-> 0, Enew |-> 0, accept |-> 0, naccept |-> 0, ntrials |-> 0]

GHMCPerDof(a) ==
    [sigma |-> ZeroPerDof, vold |-> ZeroPerDof, xold |-> ZeroPerDof, x1 |-> ZeroPerDof]

GHMCProgram ==
    << addComputePerDof("sigma", "sqrt(kT/m)"),
       addComputePerDof("v", "sqrt(b)*v + sqrt(1-b)*sigma*gaussian"),
       addConstrainVelocities,
       addConstrainPositions,
       addConstrainVelocities,
       addComputeSum("ke", "0.5*m*v*v"),
       addComputeGlobal("Eold", "ke + energy"),
       addComputePerDof("xold", "x"),
       addComputePerDof("vold", "v"),
       addComputePerDof("v", "v + 0.5*dt*f/m"),
       addComputePerDof("x", "x + v*dt"),
       addComputePerDof("x1", "x"),
       addConstrainPositions,
       addComputePerDof("v", "v + 0.5*dt*f/m + (x-x1)/dt"),
       addConstrainVelocities,
       addComputeSum("ke", "0.5*m*v*v"),
       addComputeGlobal("Enew", "ke + energy"),
       addComputeGlobal("accept", "step(exp(-(Enew-Eold)/kT) - uniform)"),
       beginIfBlock("accept != 1"),
       addComputePerDof("x", "xold"),
       addComputePerDof("v", "-vold"),
       endBlock,
       addComputePerDof("v", "sqrt(b)*v + sqrt(1-b)*sigma*gaussian"),
       addConstrainVelocities,
       addComputeGlobal("naccept", "naccept + accept"),
       addComputeGlobal("ntrials", "ntrials + 1") >>

(***************************************************************************)
(* LangevinSplittingIntegrator.__init__                                    *)
(***************************************************************************)
\* the characters a splitting argument is drawn from
Alphabet == {"A", "B", "O", "a", "o", "V"}

\* str.upper, one character
UpperChar(c) ==
    CASE c = "a" -> "A"
      [] c = "b" -> "B"
      [] c = "o" -> "O"
      [] c = "v" -> "V"
      [] OTHER -> c

Upper(str) == [k \in 1..Len(str) |-> UpperChar(str[k])]

\* set(splitting)
CharSet(str) == {str[k] : k \in 1..Len(str)}

\* sum([letter == c for letter in splitting])
Count(c, str) == Cardinality({k \in 1..Len(str) : str[k] = c})

\* the first assert alone: the count of O is not checked
AssertsPass_NoCount(splitting) == CharSet(splitting) = {"A", "B", "O"}

\* the two asserts of __init__, on the upper-cased string
AssertsPass(splitting) ==
    /\ CharSet(splitting) = {"A", "B", "O"}
    /\ Count("O", splitting) = 1

\* the two counts exchanged
UpdateEquation_Swapped(step, n_A, n_B) ==
    CASE step = "A" -> addComputePerDofN("x", "x + (dt / {n_A}) * v", n_B)
      [] step = "B" -> addComputePerDofN("v", "v + (dt / {n_B}) * f", n_A)
      [] step = "O" -> addComputePerDof("v", "b * v + sqrt( kT * (1 - b*b)) * gaussian / sqrt(m)")

\* update_equations[step], as the arguments of addComputePerDof
UpdateEquation(step, n_A, n_B) ==
    CASE step = "A" -> addComputePerDofN("x", "x + (dt / {n_A}) * v", n_A)
      [] step = "B" -> addComputePerDofN("v", "v + (dt / {n_B}) * f", n_B)
      [] step = "O" -> addComputePerDof("v", "b * v + sqrt( kT * (1 - b*b)) * gaussian / sqrt(m)")

compute_pre_step_energies(step, a) ==
    IF a.monitor_work \/ a.monitor_heat
    THEN (IF step \in {"O", "B"}
          THEN << addComputeSum("old_ke", "0.5 * m * v * v") >> ELSE << >>)
         \o
         (IF a.monitor_work /\ step = "A"
          THEN << addComputeGlobal("old_pe", "energy") >> ELSE << >>)
    ELSE << >>

\* one flag switching both projections
apply_constraints_OneFlag(step, a) ==
    (IF a.position_constraints /\ step = "A" THEN << addConstrainPositions >> ELSE << >>)
    \o
    (IF a.position_constraints /\ step \in {"O", "B"} THEN << addConstrainVelocities >> ELSE << >>)

apply_constraints(step, a) ==
    (IF a.position_constraints /\ step = "A" THEN << addConstrainPositions >> ELSE << >>)
    \o
    (IF a.velocity_constraints /\ step \in {"O", "B"} THEN << addConstrainVelocities >> ELSE << >>)

compute_post_step_energies(step, a) ==
    (IF step = "O" /\ (a.monitor_work \/ a.monitor_heat)
     THEN << addComputeSum("new_ke", "0.5 * m * v * v") >> ELSE << >>)
    \o
    (IF a.monitor_work /\ step = "A"
     THEN << addComputeGlobal("new_pe", "energy") >> ELSE << >>)

\* heat accumulated under the work flag
accumulate_heat_or_work_OneFlag(step, a) ==
    (IF a.monitor_work /\ step = "A"
     THEN << addComputeGlobal("shadow_work", "shadow_work + (new_pe - old_pe)") >> ELSE << >>)
    \o
    (IF a.monitor_work /\ step = "B"
     THEN << addComputeGlobal("shadow_work", "shadow_work + (new_ke - old_ke)") >> ELSE << >>)
    \o
    (IF a.monitor_work /\ step = "O"
     THEN << addComputeGlobal("heat", "heat + (new_ke - old_ke)") >> ELSE << >>)

accumulate_heat_or_work(step, a) ==
    (IF a.monitor_work /\ step = "A"
     THEN << addComputeGlobal("shadow_work", "shadow_work + (new_pe - old_pe)") >> ELSE << >>)
    \o
    (IF a.monitor_work /\ step = "B"
     THEN << addComputeGlobal("shadow_work", "shadow_work + (new_ke - old_ke)") >> ELSE << >>)
    \o
    (IF a.monitor_heat /\ step = "O"
     THEN << addComputeGlobal("heat", "heat + (new_ke - old_ke)") >> ELSE << >>)

\* the post-step energies captured before the constraint projection
SplittingStep_CaptureBeforeProjection(step, a, n_A, n_B) ==
    compute_pre_step_energies(step, a)
    \o << UpdateEquation(step, n_A, n_B) >>
    \o compute_post_step_energies(step, a)
    \o apply_constraints(step, a)
    \o accumulate_heat_or_work(step, a)

\* the body of `for step in splitting`
SplittingStep(step, a, n_A, n_B) ==
    compute_pre_step_energies(step, a)
    \o << UpdateEquation(step, n_A, n_B) >>
    \o apply_constraints(step, a)
    \o compute_post_step_energies(step, a)
    \o accumulate_heat_or_work(step, a)

\* the steps emitted last symbol first
RECURSIVE SplittingLoop_Reversed(_, _, _, _)
SplittingLoop_Reversed(splitting, a, n_A, n_B) ==
    IF splitting = << >> THEN << >>
    ELSE SplittingLoop_Reversed(Tail(splitting), a, n_A, n_B)
         \o SplittingStep(Head(splitting), a, n_A, n_B)

RECURSIVE SplittingLoop(_, _, _, _)
SplittingLoop(splitting, a, n_A, n_B) ==
    IF splitting = << >> THEN << >>
    ELSE SplittingStep(Head(splitting), a, n_A, n_B)
         \o SplittingLoop(Tail(splitting), a, n_A, n_B)

LangevinProgram(a) ==
    LET splitting == Upper(a.splitting)
    IN  SplittingLoop(splitting, a, Count("A", splitting), Count("B", splitting))

LangevinGlobals(a) ==
    [kT |-> ThermalEnergy(a.temperature),
     b |-> MixingParameter(a.collision_rate, a.timestep)]
    @@ (IF a.monitor_work \/ a.monitor_heat THEN [old_ke |-> 0, new_ke |-> 0] ELSE NoVariables)
    @@ (IF a.monitor_work THEN [shadow_work |-> 0, old_pe |-> 0, new_pe |-> 0] ELSE NoVariables)
    @@ (IF a.monitor_heat THEN [heat |-> 0] ELSE NoVariables)

(***************************************************************************)
(* The engine's evaluation of an expression against the current state.     *)
(* A product is formed before the quotient that follows it, so that each   *)
(* expression is rounded to the grid once.                                 *)
(***************************************************************************)
dt == args.timestep

\* 0.5*dt*f/m for DOF i
HalfKick(i) == Div(Mul(dt, Force(x, i)), 2 * Mass[i])

\* sqrt(b)*v + sqrt(1-b)*sigma*gaussian
Randomized(i, g) ==
    Add(Mul(Sqrt(glob.b), v[i]),
        Mul(Mul(Sqrt(Sub(1, glob.b)), perdof.sigma[i]), g))

\* v + (dt / n_B) * f
KickExpression(i, n) == Add(v[i], Div(Mul(dt, Force(x, i)), n))

\* x + (dt / n_A) * v
DriftExpression(i, n) == Add(x[i], Div(Mul(dt, v[i]), n))

\* x*accept + xold*(1-accept), and MC's (1-accept)*xold + x*accept
AcceptBlend(i) ==
    Add(Mul(x[i], glob.accept), Mul(perdof.xold[i], Sub(1, glob.accept)))

UsesGaussian(e) ==
    e \in {"sigma_v*gaussian", "sigma*gaussian", "x + sigma_x*gaussian",
           "sqrt(b)*v + sqrt(1-b)*sigma*gaussian",
           "b * v + sqrt( kT * (1 - b*b)) * gaussian / sqrt(m)"}

UsesUniform(e) ==
    e \in {"step(exp(-(energy-Eold)/kT) - uniform)", "step(exp(-(Enew-Eold)/kT) - uniform)"}

\* a per-DOF expression for DOF i; n is the formatted number, g the gaussian drawn for i
EvalPerDof(e, n, i, g) ==
    CASE e = "sqrt(kT/m)" -> Sqrt(Div(glob.kT, Mass[i]))
      [] e = "sigma_v*gaussian" -> Mul(perdof.sigma_v[i], g)
      [] e = "sigma*gaussian" -> Mul(perdof.sigma[i], g)
      [] e = "x" -> x[i]
      [] e = "v" -> v[i]
      [] e = "xold" -> perdof.xold[i]
      [] e = "-vold" -> Neg(perdof.vold[i])
      [] e = "x + sigma_x*gaussian" -> Add(x[i], Mul(perdof.sigma_x[i], g))
      [] e = "(1-accept)*xold + x*accept" -> AcceptBlend(i)
      [] e = "x*accept + xold*(1-accept)" -> AcceptBlend(i)
      [] e \in {"v+0.5*dt*f/m", "v + 0.5*dt*f/m"} -> Add(v[i], HalfKick(i))
      [] e \in {"x+dt*v", "x + v*dt"} -> Add(x[i], Mul(dt, v[i]))
      [] e \in {"v+0.5*dt*f/m+(x-x1)/dt", "v + 0.5*dt*f/m + (x-x1)/dt"} ->
            Add(Add(v[i], HalfKick(i)), Div(Sub(x[i], perdof.x1[i]), dt))
      [] e = "sqrt(b)*v + sqrt(1-b)*sigma*gaussian" -> Randomized(i, g)
      [] e = "x+step_size*f/sqrt(fnorm2 + delta(fnorm2))" ->
            Add(x[i], Div(Mul(glob.step_size, Force(x, i)),
                          Sqrt(Add(glob.fnorm2, Delta(glob.fnorm2)))))
      [] e = "accept*x + (1-accept)*x_old" ->
            Add(Mul(glob.accept, x[i]), Mul(Sub(1, glob.accept), perdof.x_old[i]))
      [] e = "x + (dt / {n_A}) * v" -> DriftExpression(i, n)
      [] e = "v + (dt / {n_B}) * f" -> KickExpression(i, n)
      [] e = "b * v + sqrt( kT * (1 - b*b)) * gaussian / sqrt(m)" ->
            Add(Mul(glob.b, v[i]),
                Div(Mul(Sqrt(Mul(glob.kT, Sub(1, Mul(glob.b, glob.b)))), g), Sqrt(Mass[i])))

\* the expression without step(): the difference itself
MetropolisAccept_NoStep(Enew, Eold, kT, u) == Sub(Exp4(Neg(Sub(Enew, Eold)), kT), u)

\* step(exp(-(Enew-Eold)/kT) - uniform): u is the uniform draw
MetropolisAccept(Enew, Eold, kT, u) == Step(Sub(Exp4(Neg(Sub(Enew, Eold)), kT), u))

\* a global expression; u is the uniform drawn for it
EvalGlobal(e, u) ==
    CASE e = "energy" -> PotentialEnergy(x)
      [] e = "ke + energy" -> Add(glob.ke, PotentialEnergy(x))
      [] e = "step(exp(-(energy-Eold)/kT) - uniform)" ->
            MetropolisAccept(PotentialEnergy(x), glob.Eold, glob.kT, u)
      [] e = "step(exp(-(Enew-Eold)/kT) - uniform)" ->
            MetropolisAccept(glob.Enew, glob.Eold, glob.kT, u)
      [] e = "naccept + accept" -> Add(glob.naccept, glob.accept)
      [] e = "ntrials + 1" -> Add(glob.ntrials, 1)
      [] e = "shadow_work + (new_pe - old_pe)" ->
            Add(glob.shadow_work, Sub(glob.new_pe, glob.old_pe))
      [] e = "shadow_work + (new_ke - old_ke)" ->
            Add(glob.shadow_work, Sub(glob.new_ke, glob.old_ke))
      [] e = "heat + (new_ke - old_ke)" -> Add(glob.heat, Sub(glob.new_ke, glob.old_ke))
      [] e = "energy_new-energy_old" -> Sub(glob.energy_new, glob.energy_old)
      [] e = "step(-delta_energy) * delta(energy - energy_new)" ->
            Mul(Step(Neg(glob.delta_energy)),
                Delta(Sub(PotentialEnergy(x), glob.energy_new)))
      [] e = "step_size * (2.0*accept + 0.5*(1-accept))" ->
            Overflow(Div(Mul(glob.step_size, Add(Mul(4, glob.accept), Sub(1, glob.accept))), 2))

\* addComputeSum's expression, summed over the DOFs
EvalSum(e) ==
    CASE e \in {"0.5*m*v*v", "0.5 * m * v * v"} ->
            SumTo([i \in DOFs |-> Div(Mul(Mass[i], Mul(v[i], v[i])), 2)], NDof)
      [] e = "f^2" ->
            SumTo([i \in DOFs |-> Mul(Force(x, i), Force(x, i))], NDof)

\* the block runs on acceptance instead
EvalCondition_Inverted(e) == FloatEq(glob.accept, 1)

\* the condition of beginIfBlock
EvalCondition(e) == CASE e = "accept != 1" -> ~FloatEq(glob.accept, 1)

(***************************************************************************)
(* Constructor arguments.                                                  *)
(***************************************************************************)
Temperatures == {2}          \* in units of 1/kB
Timesteps == {2}
Sigmas == {1}                \* MC displacement standard deviation
CollisionRates == {0, 4}     \* gamma; exp(-gamma*timestep) is 1, or underflows to 0
InitialPositions == {0, 1}
InitialVelocities == {0, 1}

\* the strings of length 0..k over Alphabet
RECURSIVE Strings(_)
Strings(k) ==
    IF k = 0 THEN {<< >>}
    ELSE LET shorter == Strings(k - 1)
         IN  shorter \cup {Append(str, c) : str \in {t \in shorter : Len(t) = k - 1}, c \in Alphabet}

NoArgs ==
    [splitting |-> << >>, temperature |-> 0, collision_rate |-> 0, timestep |-> 0,
     sigma |-> 0, nsteps |-> 0, monitor_work |-> FALSE, monitor_heat |-> FALSE,
     position_constraints |-> FALSE, velocity_constraints |-> FALSE]

Init ==
    /\ integrator = "none"
    /\ args = NoArgs
    /\ prog = << >>
    /\ glob = NoVariables
    /\ perdof = NoVariables
    /\ x = ZeroPerDof
    /\ v = ZeroPerDof
    /\ uniform = 0
    /\ context = FALSE
    /\ pc = 0
    /\ calls = 0

ConstructMC ==
    /\ integrator = "none"
    /\ \E temperature \in Temperatures, sigma \in Sigmas, timestep \in Timesteps :
          LET a == [NoArgs EXCEPT !.temperature = temperature, !.sigma = sigma,
                                  !.timestep = timestep]
          IN  /\ args' = a
              /\ glob' = MCGlobals(a)
              /\ perdof' = MCPerDof(a)
    /\ prog' = MCProgram
    /\ integrator' = "MetropolisMonteCarloIntegrator"
    /\ UNCHANGED <<x, v, uniform, context, pc, calls>>

ConstructHMC ==
    /\ integrator = "none"
    /\ \E temperature \in Temperatures, nsteps \in 1..MaxNsteps, timestep \in Timesteps :
          LET a == [NoArgs EXCEPT !.temperature = temperature, !.nsteps = nsteps,
                                  !.timestep = timestep]
          IN  /\ args' = a
              /\ glob' = HMCGlobals(a)
              /\ perdof' = HMCPerDof(a)
              /\ prog' = HMCProgram(nsteps)
    /\ integrator' = "HMCIntegrator"
    /\ UNCHANGED <<x, v, uniform, context, pc, calls>>

ConstructGHMC ==
    /\ integrator = "none"
    /\ \E temperature \in Temperatures, collision_rate \in CollisionRates,
          timestep \in Timesteps :
          LET a == [NoArgs EXCEPT !.temperature = temperature,
                                  !.collision_rate = collision_rate,
                                  !.timestep = timestep]
          IN  /\ args' = a
              /\ glob' = GHMCGlobals(a)
              /\ perdof' = GHMCPerDof(a)
    /\ prog' = GHMCProgram
    /\ integrator' = "GHMCIntegrator"
    /\ UNCHANGED <<x, v, uniform, context, pc, calls>>

\* the asserts placed after the registration of the globals
ConstructLangevinFrom_RegisterFirst(splittings) ==
    /\ integrator = "none"
    /\ \E splitting \in splittings, temperature \in Temperatures,
          collision_rate \in CollisionRates, timestep \in Timesteps,
          monitor_work \in BOOLEAN, monitor_heat \in BOOLEAN,
          position_constraints \in BOOLEAN, velocity_constraints \in BOOLEAN :
          LET a == [NoArgs EXCEPT !.splitting = splitting, !.temperature = temperature,
                                  !.collision_rate = collision_rate,
                                  !.timestep = timestep,
                                  !.monitor_work = monitor_work,
                                  !.monitor_heat = monitor_heat,
                                  !.position_constraints = position_constraints,
                                  !.velocity_constraints = velocity_constraints]
          IN  /\ args' = a
              /\ glob' = LangevinGlobals(a)
              /\ IF AssertsPass(Upper(splitting))
                 THEN /\ integrator' = "LangevinSplittingIntegrator"
                      /\ prog' = LangevinProgram(a)
                 ELSE /\ integrator' = "failed"
                      /\ prog' = << >>
    /\ UNCHANGED <<perdof, x, v, uniform, context, pc, calls>>

\* both asserts precede super().__init__: a failed construction has registered nothing
ConstructLangevinFrom(splittings) ==
    /\ integrator = "none"
    /\ \E splitting \in splittings, temperature \in Temperatures,
          collision_rate \in CollisionRates, timestep \in Timesteps,
          monitor_work \in BOOLEAN, monitor_heat \in BOOLEAN,
          position_constraints \in BOOLEAN, velocity_constraints \in BOOLEAN :
          LET a == [NoArgs EXCEPT !.splitting = splitting, !.temperature = temperature,
                                  !.collision_rate = collision_rate,
                                  !.timestep = timestep,
                                  !.monitor_work = monitor_work,
                                  !.monitor_heat = monitor_heat,
                                  !.position_constraints = position_constraints,
                                  !.velocity_constraints = velocity_constraints]
          IN  /\ args' = a
              /\ IF AssertsPass(Upper(splitting))
                 THEN /\ integrator' = "LangevinSplittingIntegrator"
                      /\ glob' = LangevinGlobals(a)
                      /\ prog' = LangevinProgram(a)
                 ELSE /\ integrator' = "failed"
                      /\ glob' = NoVariables
                      /\ prog' = << >>
    /\ UNCHANGED <<perdof, x, v, uniform, context, pc, calls>>

\* every string of at most MaxLen characters as the splitting argument
ConstructLangevin == ConstructLangevinFrom(Strings(MaxLen))

\* the docstring's examples, and one string the asserts refuse
Schemes ==
    { <<"A", "B", "O">>, <<"B", "A", "O", "A", "B">>, <<"A", "B", "O", "B", "A">>,
      <<"B", "A", "B">> }

ConstructLangevinExample == ConstructLangevinFrom(Schemes)

(***************************************************************************)
(* integrator.step(1): the engine runs the program, one instruction at a   *)
(* time, and returns after the last one.                                   *)
(***************************************************************************)
Constructed == integrator \notin {"none", "failed"}

Running == pc > 0

Cur == prog[pc]

NextPc == IF pc >= Len(prog) THEN 0 ELSE pc + 1

\* openmm.Context(system, integrator); context.setPositions, context.setVelocities...
CreateContext ==
    /\ Constructed
    /\ ~context
    /\ context' = TRUE
    /\ x' \in [DOFs -> InitialPositions]
    /\ v' \in [DOFs -> InitialVelocities]
    /\ UNCHANGED <<integrator, args, prog, glob, perdof, uniform, pc, calls>>

BeginStep ==
    /\ context
    /\ pc = 0
    /\ calls < MaxCalls
    /\ Len(prog) > 0
    /\ pc' = 1
    /\ calls' = calls + 1
    /\ UNCHANGED <<integrator, args, prog, glob, perdof, x, v, uniform, context>>

ExecUpdateContextState ==
    /\ Running
    /\ Cur.op = "UpdateContextState"
    /\ pc' = NextPc
    /\ UNCHANGED <<integrator, args, prog, glob, perdof, x, v, uniform, context, calls>>

ExecConstrainPositions ==
    /\ Running
    /\ Cur.op = "ConstrainPositions"
    /\ x' = ProjectPositions(x)
    /\ pc' = NextPc
    /\ UNCHANGED <<integrator, args, prog, glob, perdof, v, uniform, context, calls>>

ExecConstrainVelocities ==
    /\ Running
    /\ Cur.op = "ConstrainVelocities"
    /\ v' = ProjectVelocities(v)
    /\ pc' = NextPc
    /\ UNCHANGED <<integrator, args, prog, glob, perdof, x, uniform, context, calls>>

\* the new value of every DOF is computed from the state before the instruction
ExecComputePerDof ==
    /\ Running
    /\ Cur.op = "ComputePerDof"
    /\ \E g \in [DOFs -> IF UsesGaussian(Cur.expr) THEN Gaussian ELSE {0}] :
          LET val == [i \in DOFs |-> EvalPerDof(Cur.expr, Cur.n, i, g[i])]
          IN  CASE Cur.var = "x" -> /\ x' = val
                                    /\ UNCHANGED <<v, perdof>>
                [] Cur.var = "v" -> /\ v' = val
                                    /\ UNCHANGED <<x, perdof>>
                [] OTHER -> /\ perdof' = [perdof EXCEPT ![Cur.var] = val]
                            /\ UNCHANGED <<x, v>>
    /\ pc' = NextPc
    /\ UNCHANGED <<integrator, args, prog, glob, uniform, context, calls>>

ExecComputeGlobal ==
    /\ Running
    /\ Cur.op = "ComputeGlobal"
    /\ IF UsesUniform(Cur.expr)
       THEN \E u \in Uniform :
               /\ glob' = [glob EXCEPT ![Cur.var] = EvalGlobal(Cur.expr, u)]
               /\ uniform' = u
       ELSE /\ glob' = [glob EXCEPT ![Cur.var] = EvalGlobal(Cur.expr, 0)]
            /\ UNCHANGED uniform
    /\ pc' = NextPc
    /\ UNCHANGED <<integrator, args, prog, perdof, x, v, context, calls>>

ExecComputeSum ==
    /\ Running
    /\ Cur.op = "ComputeSum"
    /\ glob' = [glob EXCEPT ![Cur.var] = EvalSum(Cur.expr)]
    /\ pc' = NextPc
    /\ UNCHANGED <<integrator, args, prog, perdof, x, v, uniform, context, calls>>

\* the first EndBlock after instruction k (no program here nests blocks)
MatchingEnd(k) ==
    CHOOSE j \in (k + 1)..Len(prog) :
        /\ prog[j].op = "EndBlock"
        /\ \A l \in (k + 1)..(j - 1) : prog[l].op # "EndBlock"

\* a false condition skips to the instruction after the block's end
ExecBeginIfBlock ==
    /\ Running
    /\ Cur.op = "BeginIfBlock"
    /\ pc' = IF EvalCondition(Cur.expr) THEN pc + 1
             ELSE IF MatchingEnd(pc) >= Len(prog) THEN 0 ELSE MatchingEnd(pc) + 1
    /\ UNCHANGED <<integrator, args, prog, glob, perdof, x, v, uniform, context, calls>>

ExecEndBlock ==
    /\ Running
    /\ Cur.op = "EndBlock"
    /\ pc' = NextPc
    /\ UNCHANGED <<integrator, args, prog, glob, perdof, x, v, uniform, context, calls>>

\* the Metropolized integrators: MC, HMC, GHMC
NextMetropolis ==
    \/ ConstructMC
    \/ ConstructHMC
    \/ ConstructGHMC
    \/ CreateContext
    \/ BeginStep
    \/ ExecUpdateContextState
    \/ ExecConstrainPositions
    \/ ExecConstrainVelocities
    \/ ExecComputePerDof
    \/ ExecComputeGlobal
    \/ ExecComputeSum
    \/ ExecBeginIfBlock
    \/ ExecEndBlock

SpecMetropolis == Init /\ [][NextMetropolis]_vars

\* the Langevin splitting integrator
NextSplitting ==
    \/ ConstructLangevinExample
    \/ CreateContext
    \/ BeginStep
    \/ ExecConstrainPositions
    \/ ExecConstrainVelocities
    \/ ExecComputePerDof
    \/ ExecComputeGlobal
    \/ ExecComputeSum

SpecSplitting == Init /\ [][NextSplitting]_vars

\* construction alone, over every splitting string
SpecConstruct == Init /\ [][ConstructLangevin]_vars

Next == NextMetropolis \/ NextSplitting \/ ConstructLangevin

Spec == Init /\ [][Next]_vars

(***************************************************************************)
(* HMCIntegrator with an nsteps that asks for no Verlet step: __init__     *)
(* checks nothing, and range(nsteps) is empty for nsteps <= 0.             *)
(***************************************************************************)
NonPositiveNsteps == {0 - 1, 0}

ConstructHMCNonPositive ==
    /\ integrator = "none"
    /\ \E temperature \in Temperatures, nsteps \in NonPositiveNsteps, timestep \in Timesteps :
          LET a == [NoArgs EXCEPT !.temperature = temperature, !.nsteps = nsteps,
                                  !.timestep = timestep]
          IN  /\ args' = a
              /\ glob' = HMCGlobals(a)
              /\ perdof' = HMCPerDof(a)
              /\ prog' = HMCProgram(nsteps)
    /\ integrator' = "HMCIntegrator"
    /\ UNCHANGED <<x, v, uniform, context, pc, calls>>

\* HMCIntegrator with any nsteps
NextHMC ==
    \/ ConstructHMC
    \/ ConstructHMCNonPositive
    \/ CreateContext
    \/ BeginStep
    \/ ExecUpdateContextState
    \/ ExecConstrainPositions
    \/ ExecConstrainVelocities
    \/ ExecComputePerDof
    \/ ExecComputeGlobal
    \/ ExecComputeSum

SpecHMC == Init /\ [][NextHMC]_vars

(***************************************************************************)
(* VVVRIntegrator.__init__                                                 *)
(***************************************************************************)
VVVRGlobals(a) ==
    [kT |-> ThermalEnergy(a.temperature),
     b |-> MixingParameter(a.collision_rate, a.timestep)]

VVVRPerDof(a) == [sigma |-> ZeroPerDof, x1 |-> ZeroPerDof]

VVVRProgram ==
    << addUpdateContextState,
       addComputePerDof("sigma", "sqrt(kT/m)"),
       addComputePerDof("v", "sqrt(b)*v + sqrt(1-b)*sigma*gaussian"),
       addConstrainVelocities,
       addComputePerDof("v", "v + 0.5*dt*f/m"),
       addComputePerDof("x", "x + v*dt"),
       addComputePerDof("x1", "x"),
       addConstrainPositions,
       addComputePerDof("v", "v + 0.5*dt*f/m + (x-x1)/dt"),
       addConstrainVelocities,
       addComputePerDof("v", "sqrt(b)*v + sqrt(1-b)*sigma*gaussian"),
       addConstrainVelocities >>

ConstructVVVR ==
    /\ integrator = "none"
    /\ \E temperature \in Temperatures, collision_rate \in CollisionRates,
          timestep \in Timesteps :
          LET a == [NoArgs EXCEPT !.temperature = temperature,
                                  !.collision_rate = collision_rate,
                                  !.timestep = timestep]
          IN  /\ args' = a
              /\ glob' = VVVRGlobals(a)
              /\ perdof' = VVVRPerDof(a)
    /\ prog' = VVVRProgram
    /\ integrator' = "VVVRIntegrator"
    /\ UNCHANGED <<x, v, uniform, context, pc, calls>>

(***************************************************************************)
(* AndersenVelocityVerletIntegrator.__init__, for one particle.  The       *)
(* engine's degrees of freedom are the particle's Cartesian components: a  *)
(* per-DOF expression is evaluated for each component, and `uniform` and   *)
(* `gaussian` take a new value for each.                                   *)
(***************************************************************************)
Components == 1..NComp

ZeroPerComponent == [i \in Components |-> 0]

\* collision rates in units of 1/4 per unit of time: timestep * collision_rate
\* is then on the scale of `uniform`
AndersenCollisionRates == {0, 1}

AndersenGlobals(a) ==
    [kT |-> ThermalEnergy(a.temperature),
     p_collision |-> Mul(a.timestep, a.collision_rate)]

AndersenPerDof(a) ==
    [sigma_v |-> ZeroPerComponent, collision |-> ZeroPerComponent, x1 |-> ZeroPerComponent]

AndersenProgram ==
    << addComputePerDof("sigma_v", "sqrt(kT/m)"),
       addComputePerDof("collision", "step(p_collision-uniform)"),
       addComputePerDof("v", "(1-collision)*v + collision*sigma_v*gaussian"),
       addUpdateContextState,
       addComputePerDof("v", "v+0.5*dt*f/m"),
       addComputePerDof("x", "x+dt*v"),
       addComputePerDof("x1", "x"),
       addConstrainPositions,
       addComputePerDof("v", "v+0.5*dt*f/m+(x-x1)/dt"),
       addConstrainVelocities >>

ConstructAndersen ==
    /\ integrator = "none"
    /\ \E temperature \in Temperatures, collision_rate \in AndersenCollisionRates,
          timestep \in Timesteps :
          LET a == [NoArgs EXCEPT !.temperature = temperature,
                                  !.collision_rate = collision_rate,
                                  !.timestep = timestep]
          IN  /\ args' = a
              /\ glob' = AndersenGlobals(a)
              /\ perdof' = AndersenPerDof(a)
    /\ prog' = AndersenProgram
    /\ integrator' = "AndersenVelocityVerletIntegrator"
    /\ UNCHANGED <<x, v, uniform, context, pc, calls>>

IsAndersen == integrator = "AndersenVelocityVerletIntegrator"

\* the particle's mass is the mass of each of its components
ParticleMass == Mass[1]

\* `f` for component i of the particle
ParticleForce(pos, i) ==
    IF \E j \in Components : IsNaN(pos[j]) \/ pos[j] < 0 - XMax \/ pos[j] > XMax
    THEN NaN ELSE 0 - 2 * pos[i]

\* a per-DOF expression for component i; g and u are the gaussian and uniform drawn for i
EvalPerComponent(e, i, g, u) ==
    CASE e = "sqrt(kT/m)" -> Sqrt(Div(glob.kT, ParticleMass))
      [] e = "step(p_collision-uniform)" -> Step(Sub(glob.p_collision, u))
      [] e = "(1-collision)*v + collision*sigma_v*gaussian" ->
            Add(Mul(Sub(1, perdof.collision[i]), v[i]),
                Mul(Mul(perdof.collision[i], perdof.sigma_v[i]), g))
      [] e = "v+0.5*dt*f/m" ->
            Add(v[i], Div(Mul(dt, ParticleForce(x, i)), 2 * ParticleMass))
      [] e = "x+dt*v" -> Add(x[i], Mul(dt, v[i]))
      [] e = "x" -> x[i]
      [] e = "v+0.5*dt*f/m+(x-x1)/dt" ->
            Add(Add(v[i], Div(Mul(dt, ParticleForce(x, i)), 2 * ParticleMass)),
                Div(Sub(x[i], perdof.x1[i]), dt))

\* openmm.Context(system, integrator) for a system of one particle
CreateParticleContext ==
    /\ IsAndersen
    /\ ~context
    /\ context' = TRUE
    /\ x' \in [Components -> InitialPositions]
    /\ v' \in [Components -> InitialVelocities]
    /\ UNCHANGED <<integrator, args, prog, glob, perdof, uniform, pc, calls>>

ExecComputePerComponent ==
    /\ IsAndersen
    /\ Running
    /\ Cur.op = "ComputePerDof"
    /\ \E g \in [Components -> IF Cur.expr = "(1-collision)*v + collision*sigma_v*gaussian"
                               THEN Gaussian ELSE {0}],
          u \in [Components -> IF Cur.expr = "step(p_collision-uniform)"
                               THEN Uniform ELSE {0}] :
          LET val == [i \in Components |-> EvalPerComponent(Cur.expr, i, g[i], u[i])]
          IN  CASE Cur.var = "x" -> /\ x' = val
                                    /\ UNCHANGED <<v, perdof>>
                [] Cur.var = "v" -> /\ v' = val
                                    /\ UNCHANGED <<x, perdof>>
                [] OTHER -> /\ perdof' = [perdof EXCEPT ![Cur.var] = val]
                            /\ UNCHANGED <<x, v>>
    /\ pc' = NextPc
    /\ UNCHANGED <<integrator, args, prog, glob, uniform, context, calls>>

NextAndersen ==
    \/ ConstructAndersen
    \/ CreateParticleContext
    \/ BeginStep
    \/ ExecUpdateContextState
    \/ ExecConstrainPositions
    \/ ExecConstrainVelocities
    \/ ExecComputePerComponent

SpecAndersen == Init /\ [][NextAndersen]_vars

\* construction of each integrator that has a thermostat or a Metropolis test
NextPrograms ==
    \/ ConstructMC
    \/ ConstructHMC
    \/ ConstructGHMC
    \/ ConstructVVVR
    \/ ConstructAndersen
    \/ ConstructLangevinExample

SpecPrograms == Init /\ [][NextPrograms]_vars

\* the exception the constructor call ended with: a failing assert statement
\* raises AssertionError
Raised == IF integrator = "failed" THEN "AssertionError" ELSE "none"

(***************************************************************************)
(* DummyIntegrator.__init__                                                *)
(***************************************************************************)
\* an instruction that copies the positions into the velocities added
DummyProgram_CopiesPositions ==
    << addUpdateContextState,
       addConstrainPositions,
       addConstrainVelocities,
       addComputePerDof("v", "x") >>

DummyProgram ==
    << addUpdateContextState,
       addConstrainPositions,
       addConstrainVelocities >>

\* timestep = 0.0 * units.femtoseconds
ConstructDummy ==
    /\ integrator = "none"
    /\ args' = [NoArgs EXCEPT !.timestep = 0]
    /\ glob' = NoVariables
    /\ perdof' = NoVariables
    /\ prog' = DummyProgram
    /\ integrator' = "DummyIntegrator"
    /\ UNCHANGED <<x, v, uniform, context, pc, calls>>

(***************************************************************************)
(* GradientDescentMinimizationIntegrator.__init__                          *)
(***************************************************************************)
\* initial_step_size, any positive length: a unit, a step that can be halved
\* once per call, and the largest finite one
InitialStepSizes == {1, 2 ^ MaxCalls, FloatMax}

GradientDescentGlobals(initial_step_size) ==
    [step_size |-> initial_step_size, energy_old |-> 0, energy_new |-> 0,
     delta_energy |-> 0, accept |-> 0, fnorm2 |-> 0]

GradientDescentPerDof == [x_old |-> ZeroPerDof]

GradientDescentProgram ==
    << addUpdateContextState,
       addConstrainPositions,
       addComputeGlobal("energy_old", "energy"),
       addComputePerDof("x_old", "x"),
       addComputeSum("fnorm2", "f^2"),
       addComputePerDof("x", "x+step_size*f/sqrt(fnorm2 + delta(fnorm2))"),
       addConstrainPositions,
       addComputeGlobal("energy_new", "energy"),
       addComputeGlobal("delta_energy", "energy_new-energy_old"),
       addComputeGlobal("accept", "step(-delta_energy) * delta(energy - energy_new)"),
       addComputePerDof("x", "accept*x + (1-accept)*x_old"),
       addComputeGlobal("step_size", "step_size * (2.0*accept + 0.5*(1-accept))") >>

\* timestep = 1.0 * units.femtoseconds
ConstructGradientDescent ==
    /\ integrator = "none"
    /\ \E initial_step_size \in InitialStepSizes :
          glob' = GradientDescentGlobals(initial_step_size)
    /\ args' = [NoArgs EXCEPT !.timestep = 1]
    /\ perdof' = GradientDescentPerDof
    /\ prog' = GradientDescentProgram
    /\ integrator' = "GradientDescentMinimizationIntegrator"
    /\ UNCHANGED <<x, v, uniform, context, pc, calls>>

\* the two integrators without a thermostat that the tests step
NextMinimizer ==
    \/ ConstructDummy
    \/ ConstructGradientDescent
    \/ CreateContext
    \/ BeginStep
    \/ ExecUpdateContextState
    \/ ExecConstrainPositions
    \/ ExecConstrainVelocities
    \/ ExecComputePerDof
    \/ ExecComputeGlobal
    \/ ExecComputeSum

SpecMinimizer == Init /\ [][NextMinimizer]_vars

(***************************************************************************)
(* One HMC trial as a function of the positions at entry, the constructor  *)
(* arguments and the draws: the instructions of HMCIntegrator.__init__     *)
(* composed in program order.                                              *)
(***************************************************************************)
\* "0.5*m*v*v" summed over the DOFs, for the velocities vel
KineticEnergy(vel) ==
    SumTo([i \in DOFs |-> Div(Mul(Mass[i], Mul(vel[i], vel[i])), 2)], NDof)

\* one pass of the body of `for step in range(nsteps)` from positions s.x and
\* velocities s.v with timestep h; x1 is the copy of the new positions
VerletStepOf(s, h) ==
    LET v1 == [i \in DOFs |-> Add(s.v[i], Div(Mul(h, Force(s.x, i)), 2 * Mass[i]))]
        xn == [i \in DOFs |-> Add(s.x[i], Mul(h, v1[i]))]
        x1 == xn
        v2 == [i \in DOFs |->
                 Add(Add(v1[i], Div(Mul(h, Force(xn, i)), 2 * Mass[i])),
                     Div(Sub(xn[i], x1[i]), h))]
    IN  [x |-> ProjectPositions(xn), v |-> ProjectVelocities(v2)]

RECURSIVE VerletStepsOf(_, _, _)
VerletStepsOf(s, h, n) == IF n <= 0 THEN s ELSE VerletStepsOf(VerletStepOf(s, h), h, n - 1)

\* the trial from positions x0 with the gaussian draws g (one per DOF) and the
\* uniform draw u, for the constructor arguments a
HMCTrial(x0, g, u, a) ==
    LET kT == ThermalEnergy(a.temperature)
        v0 == [i \in DOFs |-> Mul(Sqrt(Div(kT, Mass[i])), g[i])]
        Eold == Add(KineticEnergy(v0), PotentialEnergy(x0))
        s == VerletStepsOf([x |-> x0, v |-> ProjectVelocities(v0)], a.timestep, a.nsteps)
        Enew == Add(KineticEnergy(s.v), PotentialEnergy(s.x))
        accept == MetropolisAccept(Enew, Eold, kT, u)
    IN  [x |-> [i \in DOFs |-> Add(Mul(s.x[i], accept), Mul(x0[i], Sub(1, accept)))],
         v |-> s.v, accept |-> accept, Eold |-> Eold, Enew |-> Enew]

(***************************************************************************)
(* Claims.                                                                 *)
(***************************************************************************)
IsLangevin == integrator = "LangevinSplittingIntegrator"

\* the string the claims speak of: the splitting argument, upper-cased
Scheme == Upper(args.splitting)

Occurrences(c, str) == {k \in DOMAIN str : str[k] = c}

\* C1: construction of LangevinSplittingIntegrator succeeds if and only if the
\* upper-cased splitting string contains A, contains B, contains O exactly once
\* and contains no other character; every other string makes it fail.
C1_ParseIffValid ==
    integrator # "none" =>
        LET wellFormed ==
                /\ Occurrences("A", Scheme) # {}
                /\ Occurrences("B", Scheme) # {}
                /\ Cardinality(Occurrences("O", Scheme)) = 1
                /\ \A k \in DOMAIN Scheme : Scheme[k] \in {"A", "B", "O"}
        IN  /\ wellFormed => IsLangevin
            /\ ~wellFormed => integrator = "failed"

\* a lower-case o is the scheme's only O, and construction succeeded
C1_Witness ==
    /\ IsLangevin
    /\ Occurrences("o", args.splitting) # {}
    /\ Occurrences("O", args.splitting) = {}
    /\ Len(args.splitting) = 4

IsMC == integrator = "MetropolisMonteCarloIntegrator"
IsHMC == integrator = "HMCIntegrator"
IsGHMC == integrator = "GHMCIntegrator"
Metropolized == IsMC \/ IsHMC \/ IsGHMC

\* the instruction that assigns global or per-DOF variable `name` (the only one)
IndexOf(name) == CHOOSE k \in DOMAIN prog : prog[k].var = name

AcceptIdx == IndexOf("accept")

\* the last instruction of the commit-or-rollback: the blend of MC and HMC, GHMC's endBlock
CommitEnd ==
    IF IsGHMC THEN CHOOSE k \in DOMAIN prog : prog[k].op = "EndBlock" ELSE AcceptIdx + 1

\* a step() call has returned
Returned == pc = 0 /\ calls > 0

\* the trial's commit or rollback has run, and no later trial has begun
Committed == Returned \/ pc > CommitEnd

\* E_new - E_old as the accept expression reads it (MC reads `energy` itself)
TrialDeltaE ==
    IF IsMC THEN Sub(PotentialEnergy(x), glob.Eold) ELSE Sub(glob.Enew, glob.Eold)

\* exp(-(E_new - E_old)/kT), on the scale of `uniform`
MetropolisRatio == Exp4(Neg(TrialDeltaE), glob.kT)

C3_AtReturn ==
    (IsGHMC /\ Returned /\ glob.accept = 0) =>
        \A i \in DOFs :
            /\ FloatEq(x[i], perdof.xold[i])
            /\ FloatEq(v[i], Neg(perdof.vold[i]))

\* C3, amended: after a rejected GHMC trial every DOF's position equals the
\* snapshot position from the end of the rollback block until the call returns;
\* every DOF's velocity equals the negated snapshot velocity at the end of the
\* rollback block, and from the velocity randomization that follows until the
\* call returns it is sqrt(b)*(-vold) + sqrt(1-b)*sigma*gaussian.
C3_Rollback ==
    (IsGHMC /\ Committed /\ glob.accept = 0) =>
        /\ \A i \in DOFs : FloatEq(x[i], perdof.xold[i])
        /\ pc = CommitEnd + 1 => \A i \in DOFs : FloatEq(v[i], Neg(perdof.vold[i]))
        /\ pc # CommitEnd + 1 =>
              \A i \in DOFs : \E g \in Gaussian :
                  FloatEq(v[i],
                          Add(Mul(Sqrt(glob.b), Neg(perdof.vold[i])),
                              Mul(Mul(Sqrt(Sub(1, glob.b)), perdof.sigma[i]), g)))

\* a rejected GHMC trial has returned with a velocity that is not the negated snapshot
C3_Witness ==
    /\ IsGHMC
    /\ Returned
    /\ glob.accept = 0
    /\ \E i \in DOFs : ~FloatEq(v[i], Neg(perdof.vold[i]))
    /\ \A i \in DOFs : FloatEq(x[i], perdof.xold[i])

\* C4, as claimed: a trial is accepted only when the Metropolis ratio is strictly
\* greater than the uniform draw; a draw equal to the ratio is rejected.
C4_Strict ==
    (Metropolized /\ pc = AcceptIdx + 1) =>
        /\ glob.accept = 1 => (~IsNaN(MetropolisRatio) /\ MetropolisRatio > uniform)
        /\ FloatEq(MetropolisRatio, uniform) => glob.accept = 0

\* C4, amended: a trial is accepted exactly when the Metropolis ratio is greater
\* than or equal to the uniform draw (step(0) = 1): a draw equal to the ratio is
\* accepted; a NaN ratio is rejected.
C4_NonStrict ==
    (Metropolized /\ pc = AcceptIdx + 1) =>
        glob.accept = IF ~IsNaN(MetropolisRatio) /\ MetropolisRatio >= uniform THEN 1 ELSE 0

\* the uniform draw equals the ratio and the trial is accepted
C4_Witness ==
    /\ Metropolized
    /\ pc = AcceptIdx + 1
    /\ FloatEq(MetropolisRatio, uniform)
    /\ glob.accept = 1

\* C5: a trial of MC, HMC or GHMC whose energy difference is NaN ends with
\* accept = 0 and with every DOF's position equal to the snapshot position (no
\* NaN left in the positions); ntrials counts the trial.
C5_NaNRejected ==
    /\ (Metropolized /\ pc = AcceptIdx + 1 /\ IsNaN(TrialDeltaE)) => glob.accept = 0
    /\ ((IsHMC \/ IsGHMC) /\ Committed /\ IsNaN(TrialDeltaE)) =>
            /\ glob.accept = 0
            /\ \A i \in DOFs : FloatEq(x[i], perdof.xold[i])
    /\ (IsMC /\ Committed /\ glob.accept = 0) =>
            \A i \in DOFs : FloatEq(x[i], perdof.xold[i])
    /\ (Metropolized /\ Returned) => glob.ntrials = calls

\* C6: in MC and HMC the commit step leaves the velocity as it is, puts every
\* DOF's position back to the saved one after a rejection and leaves it as
\* proposed after an acceptance; nothing after it writes positions or velocities.
C6_Commit ==
    [][((IsMC \/ IsHMC) /\ pc > AcceptIdx) =>
          /\ v' = v
          /\ (pc = AcceptIdx + 1 /\ glob.accept = 0) =>
                \A i \in DOFs : FloatEq(x'[i], perdof.xold[i])
          /\ (pc = AcceptIdx + 1 /\ glob.accept = 1) =>
                \A i \in DOFs : FloatEq(x'[i], x[i])
          /\ pc > AcceptIdx + 1 => x' = x]_vars

\* the instructions that write positions or velocities
IsStateUpdate(ins) == ins.op = "ComputePerDof" /\ ins.var \in {"x", "v"}

StateUpdates == SelectSeq(prog, IsStateUpdate)

\* the valid schemes with the same symbols as str, each as often, in another order
Reorderings(str) ==
    {s \in [DOMAIN str -> {"A", "B", "O"}] :
        /\ s # str
        /\ \A c \in {"A", "B", "O"} : Count(c, s) = Count(c, str)}

\* C7: the program of a valid scheme has exactly one state-update instruction
\* per symbol, in the order of the symbols (A writes x; B and O write v, B with
\* the force and O with the gaussian); a scheme with the same symbols in another
\* order yields a different program.
C7_OrderKept ==
    IsLangevin =>
        /\ Len(StateUpdates) = Len(Scheme)
        /\ \A k \in DOMAIN Scheme :
              LET ins == StateUpdates[k]
              IN  CASE Scheme[k] = "A" ->
                          ins.var = "x" /\ ins.expr = "x + (dt / {n_A}) * v"
                    [] Scheme[k] = "B" ->
                          ins.var = "v" /\ ins.expr = "v + (dt / {n_B}) * f"
                    [] Scheme[k] = "O" ->
                          /\ ins.var = "v"
                          /\ ins.expr = "b * v + sqrt( kT * (1 - b*b)) * gaussian / sqrt(m)"
        /\ \A other \in Reorderings(Scheme) :
              LangevinProgram([args EXCEPT !.splitting = other]) # prog

\* a scheme of four symbols that is not its own reverse, with bookkeeping and
\* constraint instructions between the updates
C7_Witness ==
    /\ IsLangevin
    /\ Scheme = <<"B", "A", "O", "A">>
    /\ args.monitor_work
    /\ args.position_constraints
    /\ Len(prog) > Len(Scheme)

\* the sum of 1/n over the instructions of seq, as <<numerator, denominator>>
RECURSIVE FractionSum(_)
FractionSum(seq) ==
    IF seq = << >> THEN <<0, 1>>
    ELSE LET rest == FractionSum(Tail(seq))
             n == Head(seq).n
         IN  <<rest[1] * n + rest[2], rest[2] * n>>

IsDrift(ins) == ins.op = "ComputePerDof" /\ ins.var = "x"

IsKick(ins) == ins.op = "ComputePerDof" /\ ins.expr = "v + (dt / {n_B}) * f"

\* C8: every Drift instruction advances by dt/n_A and every Kick instruction by
\* dt/n_B, n_A and n_B being the numbers of A and B in the scheme; over one pass
\* of the program the Drift fractions add up to exactly 1 timestep, and so do
\* the Kick fractions (in exact rational arithmetic).
C8_FullTimestep ==
    IsLangevin =>
        LET drifts == SelectSeq(prog, IsDrift)
            kicks == SelectSeq(prog, IsKick)
        IN  /\ \A k \in DOMAIN drifts : drifts[k].n = Count("A", Scheme)
            /\ \A k \in DOMAIN kicks : kicks[k].n = Count("B", Scheme)
            /\ FractionSum(drifts)[1] = FractionSum(drifts)[2]
            /\ FractionSum(kicks)[1] = FractionSum(kicks)[2]

\* two Drift symbols and one Kick symbol
C8_Witness ==
    /\ IsLangevin
    /\ Count("A", Scheme) = 2
    /\ Count("B", Scheme) = 1
    /\ Len(SelectSeq(prog, IsDrift)) = 2

\* C9: every Kick (B) instruction changes each DOF's velocity by
\* (dt/n_B) * force / mass.
C9_KickOverMass ==
    [][(IsLangevin /\ Running /\ IsKick(Cur)) =>
          \A i \in DOFs :
              FloatEq(v'[i], Add(v[i], Div(Mul(dt, Force(x, i)), Cur.n * Mass[i])))]_vars

\* C10: a ConstrainPositions instruction follows every A update if and only if
\* position_constraints is set, a ConstrainVelocities instruction follows every
\* O and every B update if and only if velocity_constraints is set, whatever
\* the other flag is; constraint instructions stand nowhere else, so with both
\* flags off the program has none.
C10_IndependentFlags ==
    IsLangevin =>
        \A k \in DOMAIN prog :
            /\ (IsStateUpdate(prog[k]) /\ prog[k].var = "x") =>
                  (args.position_constraints <=>
                      (k < Len(prog) /\ prog[k + 1].op = "ConstrainPositions"))
            /\ (IsStateUpdate(prog[k]) /\ prog[k].var = "v") =>
                  (args.velocity_constraints <=>
                      (k < Len(prog) /\ prog[k + 1].op = "ConstrainVelocities"))
            /\ prog[k].op = "ConstrainPositions" =>
                  /\ args.position_constraints
                  /\ k > 1 /\ IsStateUpdate(prog[k - 1]) /\ prog[k - 1].var = "x"
            /\ prog[k].op = "ConstrainVelocities" =>
                  /\ args.velocity_constraints
                  /\ k > 1 /\ IsStateUpdate(prog[k - 1]) /\ prog[k - 1].var = "v"

\* positions are constrained and velocities are not
C10_Witness ==
    /\ IsLangevin
    /\ args.position_constraints
    /\ ~args.velocity_constraints
    /\ \E k \in DOMAIN prog : prog[k].op = "ConstrainPositions"
    /\ \A k \in DOMAIN prog : prog[k].op # "ConstrainVelocities"

\* the state update that instruction k belongs to: the last one at or before k (0 if none)
UpdateBefore(k) ==
    LET earlier == {j \in 1..k : IsStateUpdate(prog[j])}
    IN  IF earlier = {} THEN 0 ELSE CHOOSE j \in earlier : \A l \in earlier : l <= j

\* the instructions after state update j, before the next one, that add `expr` to `var`
Accumulations(j, var, expr) ==
    {k \in DOMAIN prog : prog[k].op = "ComputeGlobal" /\ prog[k].var = var
                         /\ prog[k].expr = expr /\ UpdateBefore(k) = j}

\* the symbol whose state update is instruction j
SymbolOf(j) ==
    IF prog[j].var = "x" THEN "A" ELSE IF IsKick(prog[j]) THEN "B" ELSE "O"

\* C11: shadow_work is updated exactly once after each A step (by new_pe -
\* old_pe) and once after each B step (by new_ke - old_ke) if and only if
\* monitor_work is set; heat is updated exactly once after the O step (by
\* new_ke - old_ke) if and only if monitor_heat is set; no other instruction
\* writes shadow_work or heat; with both flags off the only globals are kT and
\* b and the program holds state updates and constraint projections only.
C11_Bookkeeping ==
    IsLangevin =>
        LET work == IF args.monitor_work THEN 1 ELSE 0
            heat == IF args.monitor_heat THEN 1 ELSE 0
            pe == "shadow_work + (new_pe - old_pe)"
            ke == "shadow_work + (new_ke - old_ke)"
            q == "heat + (new_ke - old_ke)"
        IN  /\ \A j \in DOMAIN prog :
                  IsStateUpdate(prog[j]) =>
                      /\ Cardinality(Accumulations(j, "shadow_work", pe)) =
                            IF SymbolOf(j) = "A" THEN work ELSE 0
                      /\ Cardinality(Accumulations(j, "shadow_work", ke)) =
                            IF SymbolOf(j) = "B" THEN work ELSE 0
                      /\ Cardinality(Accumulations(j, "heat", q)) =
                            IF SymbolOf(j) = "O" THEN heat ELSE 0
            /\ \A k \in DOMAIN prog :
                  /\ prog[k].var = "shadow_work" =>
                        /\ prog[k].op = "ComputeGlobal"
                        /\ prog[k].expr \in {pe, ke}
                        /\ UpdateBefore(k) > 0
                  /\ prog[k].var = "heat" =>
                        /\ prog[k].op = "ComputeGlobal"
                        /\ prog[k].expr = q
                        /\ UpdateBefore(k) > 0
            /\ ("shadow_work" \in DOMAIN glob) <=> args.monitor_work
            /\ ("heat" \in DOMAIN glob) <=> args.monitor_heat
            /\ (~args.monitor_work /\ ~args.monitor_heat) =>
                  /\ DOMAIN glob = {"kT", "b"}
                  /\ \A k \in DOMAIN prog :
                        \/ IsStateUpdate(prog[k])
                        \/ prog[k].op \in {"ConstrainPositions", "ConstrainVelocities"}

\* work is monitored and heat is not, and the scheme has two B steps
C11_Witness ==
    /\ IsLangevin
    /\ args.monitor_work
    /\ ~args.monitor_heat
    /\ Count("B", Scheme) = 2
    /\ Cardinality({k \in DOMAIN prog : prog[k].var = "shadow_work"}) = 3
    /\ \A k \in DOMAIN prog : prog[k].var # "heat"

\* the velocity-Verlet sub-program, instruction by instruction
IsVerletBlock(first) ==
    /\ prog[first] = [op |-> "ComputePerDof", var |-> "v", expr |-> "v+0.5*dt*f/m", n |-> 0]
    /\ prog[first + 1] = [op |-> "ComputePerDof", var |-> "x", expr |-> "x+dt*v", n |-> 0]
    /\ prog[first + 2] = [op |-> "ComputePerDof", var |-> "x1", expr |-> "x", n |-> 0]
    /\ prog[first + 3].op = "ConstrainPositions"
    /\ prog[first + 4] =
          [op |-> "ComputePerDof", var |-> "v", expr |-> "v+0.5*dt*f/m+(x-x1)/dt", n |-> 0]
    /\ prog[first + 5].op = "ConstrainVelocities"

\* C12: the program of HMCIntegrator(nsteps = n) holds exactly n repetitions of
\* the velocity-Verlet sub-program (half-kick, drift, position projection,
\* half-kick, velocity projection), all after the snapshot and before the one
\* energy evaluation and the one accept/reject decision; a step call runs the
\* program once, instruction after instruction, and returns only after the
\* statistics update.
C12_VerletRepetitions ==
    /\ [](IsHMC =>
            LET snapshot == IndexOf("xold")
                evaluate == IndexOf("Enew")
                n == args.nsteps
            IN  /\ evaluate = snapshot + 6 * n + 2
                /\ \A r \in 0..(n - 1) : IsVerletBlock(snapshot + 1 + 6 * r)
                /\ prog[evaluate - 1].op = "ComputeSum"
                /\ AcceptIdx = evaluate + 1
                /\ Cardinality({k \in DOMAIN prog : prog[k].var \in {"accept", "Enew"}}) = 2
                /\ \A k \in DOMAIN prog :
                      (k <= snapshot \/ k >= evaluate - 1) =>
                          ~(prog[k].op = "ComputePerDof" /\ prog[k].expr = "x+dt*v")
                /\ prog[Len(prog)].var = "ntrials")
    /\ [][(IsHMC /\ Running) =>
            \/ pc' = pc + 1
            \/ pc = Len(prog) /\ pc' = 0]_vars

\* a step call of HMCIntegrator(nsteps = 2) has returned
C12_Witness ==
    /\ IsHMC
    /\ args.nsteps = 2
    /\ Returned
    /\ glob.ntrials = 1

\* C13: no HMCIntegrator is ever constructed with nsteps <= 0 (construction
\* fails instead), so no trial with an empty proposal ever runs.
C13_NonPositiveRefused ==
    IsHMC => args.nsteps >= 1

\* the trial phase instruction k belongs to: 1 DRAW_MOMENTA, 2 SNAPSHOT,
\* 3 PROPOSE, 4 EVALUATE, 5 ACCEPT_REJECT, 6 COMMIT or ROLLBACK, 7 STATS_UPDATE;
\* 0 for the context update, the precomputation of sigma and the projections
PhaseOf(k) ==
    LET ins == prog[k]
    IN  IF ins.op \in {"UpdateContextState", "ConstrainPositions", "ConstrainVelocities"}
            \/ ins.var \in {"sigma", "sigma_v"} THEN 0
        ELSE IF ins.op = "ComputePerDof" /\ ins.var = "v" /\ UsesGaussian(ins.expr) THEN 1
        ELSE IF ins.var \in {"xold", "vold", "Eold"} THEN 2
        ELSE IF ins.op = "ComputeSum"
             THEN (IF k < Len(prog) /\ prog[k + 1].var = "Eold" THEN 2 ELSE 4)
        ELSE IF ins.var = "Enew" THEN 4
        ELSE IF ins.var = "accept" THEN 5
        ELSE IF ins.op \in {"BeginIfBlock", "EndBlock"}
                \/ ins.expr \in {"(1-accept)*xold + x*accept", "x*accept + xold*(1-accept)",
                                 "xold", "-vold"} THEN 6
        ELSE IF ins.var \in {"naccept", "ntrials"} THEN 7
        ELSE 3

\* the phases of instructions 1..k in program order, a run of one phase written once
RECURSIVE PhaseRuns(_)
PhaseRuns(k) ==
    IF k = 0 THEN << >>
    ELSE LET before == PhaseRuns(k - 1)
             ph == PhaseOf(k)
         IN  IF ph = 0 \/ (before # << >> /\ before[Len(before)] = ph) THEN before
             ELSE Append(before, ph)

\* every write of drawn momenta is followed at once by the velocity projection
DrawsProjected ==
    \A k \in DOMAIN prog :
        PhaseOf(k) = 1 => (k < Len(prog) /\ prog[k + 1].op = "ConstrainVelocities")

\* C14, as claimed: in MC, HMC and GHMC the program runs DRAW_MOMENTA (with the
\* velocity projection right after), SNAPSHOT, PROPOSE, EVALUATE,
\* ACCEPT_REJECT, COMMIT or ROLLBACK, STATS_UPDATE once each in this order (MC
\* evaluates the energy inside its accept instruction), and no position or
\* velocity is written between COMMIT/ROLLBACK and STATS_UPDATE.
C14_PhaseOrder ==
    Metropolized =>
        /\ PhaseRuns(Len(prog)) = IF IsMC THEN <<1, 2, 3, 5, 6, 7>> ELSE <<1, 2, 3, 4, 5, 6, 7>>
        /\ DrawsProjected
        /\ \A k \in DOMAIN prog : k > CommitEnd => ~IsStateUpdate(prog[k])

\* C14, amended: MC and HMC run the phases once each in the claimed order and
\* write no position or velocity after the commit; GHMC runs DRAW_MOMENTA,
\* SNAPSHOT, PROPOSE, EVALUATE, ACCEPT_REJECT, ROLLBACK (on rejection only),
\* then a second DRAW_MOMENTA, which writes the velocities, and only then
\* STATS_UPDATE.  Every DRAW_MOMENTA is followed at once by the velocity
\* projection.  A step call runs the program forward once and returns after
\* STATS_UPDATE; only GHMC's rollback block is ever skipped.
C14_PhaseOrderGHMCTwoDraws ==
    /\ [](Metropolized =>
            /\ PhaseRuns(Len(prog)) =
                  IF IsMC THEN <<1, 2, 3, 5, 6, 7>>
                  ELSE IF IsHMC THEN <<1, 2, 3, 4, 5, 6, 7>>
                  ELSE <<1, 2, 3, 4, 5, 6, 1, 7>>
            /\ DrawsProjected
            /\ ~IsGHMC => \A k \in DOMAIN prog : k > CommitEnd => ~IsStateUpdate(prog[k])
            /\ IsGHMC =>
                  {k \in DOMAIN prog : k > CommitEnd /\ IsStateUpdate(prog[k])}
                      = {CommitEnd + 1}
            /\ IsGHMC => (PhaseOf(CommitEnd + 1) = 1 /\ prog[CommitEnd + 1].var = "v"))
    /\ [][(Metropolized /\ Running) =>
            \/ pc' = pc + 1
            \/ pc = Len(prog) /\ PhaseOf(pc) = 7 /\ pc' = 0
            \/ IsGHMC /\ Cur.op = "BeginIfBlock" /\ glob.accept = 1 /\ pc' = CommitEnd + 1]_vars

\* an accepted GHMC trial has skipped the rollback, drawn momenta a second time and returned
C14_Witness ==
    /\ IsGHMC
    /\ Returned
    /\ glob.accept = 1
    /\ glob.naccept = 1
    /\ \E i \in DOFs : ~FloatEq(v[i], 0)

\* the context-update instructions of the program
Hooks == {k \in DOMAIN prog : prog[k].op = "UpdateContextState"}

\* C15: in the program of every integrator (MC, HMC, GHMC, VVVR, Andersen,
\* LangevinSplitting) the context update is the first instruction and occurs
\* exactly once, so that it runs once per step call before anything else.
C15_HookFirst ==
    Constructed => Hooks = {1}

\* C16, as claimed: a refused splitting string is reported as an
\* InvalidSchemeError, before any global variable or instruction has been
\* registered.
C16_InvalidSchemeError ==
    integrator = "failed" =>
        /\ Raised = "InvalidSchemeError"
        /\ glob = NoVariables
        /\ perdof = NoVariables
        /\ prog = << >>

\* C16, amended: a refused splitting string is reported as an AssertionError
\* during construction, before any global variable, per-DOF variable or
\* instruction has been registered; no integrator object results, and none is
\* ever put in a context or stepped.
C16_AssertionBeforeRegistration ==
    integrator = "failed" =>
        /\ ~AssertsPass(Scheme)
        /\ Raised = "AssertionError"
        /\ glob = NoVariables
        /\ perdof = NoVariables
        /\ prog = << >>
        /\ ~Constructed
        /\ ~context /\ pc = 0 /\ calls = 0

\* a string with A, B and two O, with monitoring asked for, has been refused
C16_Witness ==
    /\ integrator = "failed"
    /\ CharSet(Scheme) = {"A", "B", "O"}
    /\ Count("O", Scheme) = 2
    /\ args.monitor_work
    /\ args.monitor_heat

\* the thermostat's velocity write is the instruction about to run
AtThermostat ==
    IsAndersen /\ Running /\ Cur.expr = "(1-collision)*v + collision*sigma_v*gaussian"

\* C17: Andersen collisions are per particle: in every step either all velocity
\* components of the particle collide or none does, and the thermostat leaves
\* the velocity of a component that did not collide unchanged.
C17_PerParticleCollisions ==
    /\ [](IsAndersen =>
            \A i, j \in Components : perdof.collision[i] = perdof.collision[j])
    /\ [][AtThermostat =>
            \A i \in Components :
                perdof.collision[i] = 0 => v'[i] = v[i]]_vars

IsGradientDescent == integrator = "GradientDescentMinimizationIntegrator"

\* C18: with GradientDescentMinimizationIntegrator the potential energy is never
\* NaN when a step call returns and never higher than before the step; a trial
\* move is kept only when its energy is not above the stored old energy and is
\* not NaN, and otherwise every DOF's position is back at its pre-move value.
C18_NeverUphill ==
    IsGradientDescent =>
        /\ (context /\ pc = 0) => ~IsNaN(PotentialEnergy(x))
        /\ Returned => PotentialEnergy(x) <= glob.energy_old
        /\ (Running /\ pc > IndexOf("accept")) =>
              /\ glob.accept \in {0, 1}
              /\ glob.accept = 1 =>
                    (~IsNaN(glob.energy_new) /\ glob.energy_new <= glob.energy_old)
        /\ (Running /\ pc = Len(prog) /\ glob.accept = 0) =>
              \A i \in DOFs : FloatEq(x[i], perdof.x_old[i])

IsDummy == integrator = "DummyIntegrator"

\* the simulation clock: the engine adds the timestep to it at every step call
Time == Mul(calls, args.timestep)

\* C19: a DummyIntegrator step is made of the context-state update and the two
\* constraint projections only; in a system without constraints no step of it
\* changes a position or a velocity, its timestep is 0 so the clock stays at 0
\* after any number of calls, and the potential energy is never NaN.
C19_StepChangesNothing ==
    /\ [](IsDummy =>
            /\ \A k \in 1..Len(prog) :
                  prog[k].op \in {"UpdateContextState", "ConstrainPositions",
                                  "ConstrainVelocities"}
            /\ args.timestep = 0
            /\ Time = 0
            /\ context => ~IsNaN(PotentialEnergy(x)))
    /\ [][(IsDummy /\ context) => (x' = x /\ v' = v)]_vars

\* C19 witness: a DummyIntegrator has returned from MaxCalls step calls with a
\* moving particle away from the origin.
C19_Witness ==
    /\ IsDummy
    /\ Returned
    /\ calls = MaxCalls
    /\ \E i \in DOFs : x[i] # 0 /\ v[i] # 0

\* C20: HMCIntegrator is deterministic given its inputs and draws: when a step
\* call returns, the positions, the velocities, the accept decision and the
\* stored energies are the values of one function of the positions at entry,
\* nsteps, the timestep, kT, the gaussian draws and the uniform draw, whatever
\* the velocities and the integrator variables were at entry; ntrials is the
\* number  of calls and naccept moves only by the accept decision.
C20_SameDrawsSameOutcome ==
    /\ []((IsHMC /\ Returned) =>
            /\ \E g \in [DOFs -> Gaussian] :
                  LET t == HMCTrial(perdof.xold, g, uniform, args)
                  IN  /\ x = t.x
                      /\ v = t.v
                      /\ glob.accept = t.accept
                      /\ glob.Eold = t.Eold
                      /\ glob.Enew = t.Enew
            /\ glob.ntrials = calls
            /\ glob.naccept \in 0..calls)
    /\ [][(IsHMC /\ Running) =>
            \/ glob'.naccept = glob.naccept
            \/ /\ Cur.var = "naccept"
               /\ glob'.naccept = Add(glob.naccept, glob.accept)]_vars

\* C20 witness: the second HMC trial of a context has returned, one trial
\* accepted and one rejected, from a particle that entered away from the origin.
C20_Witness ==
    /\ IsHMC
    /\ Returned
    /\ calls = 2
    /\ glob.naccept = 1
    /\ args.nsteps = MaxNsteps
    /\ \E i \in DOFs : perdof.xold[i] # 0

\* the place of an instruction within its symbol's group: 1 pre-step energy
\* capture, 2 state update, 3 constraint projection, 4 post-step energy capture,
\* 5 shadow_work/heat accumulation (0: none of these)
Phase(ins) ==
    CASE ins.var \in {"old_ke", "old_pe"} -> 1
      [] IsStateUpdate(ins) -> 2
      [] ins.op \in {"ConstrainPositions", "ConstrainVelocities"} -> 3
      [] ins.var \in {"new_ke", "new_pe"} -> 4
      [] ins.var \in {"shadow_work", "heat"} -> 5
      [] OTHER -> 0

\* the first state update at or after instruction k (0 if none)
UpdateAfter(k) ==
    LET later == {j \in k..Len(prog) : IsStateUpdate(prog[j])}
    IN  IF later = {} THEN 0 ELSE CHOOSE j \in later : \A l \in later : j <= l

\* the state update whose symbol emitted instruction k: a pre-step capture
\* belongs to the update that follows it, everything else to the one before
GroupOf(k) == IF Phase(prog[k]) = 1 THEN UpdateAfter(k) ELSE UpdateBefore(k)

\* the variables written by the energy captures of the group of state update j
Captured(j) ==
    {prog[k].var : k \in {l \in DOMAIN prog : GroupOf(l) = j /\ Phase(prog[l]) \in {1, 4}}}

\* C21: the instructions of a LangevinSplittingIntegrator program fall into one
\* group per symbol, the groups in the order of the symbols and never
\* interleaved; within a group the order is pre-step energy capture, state
\* update, constraint projection, post-step energy capture, accumulation, each
\* at most once; old_ke is captured before O and B when any monitoring is on,
\* old_pe before A when work is monitored, new_ke after O, new_pe after A.
C21_GroupOrder ==
    IsLangevin =>
        /\ \A k \in DOMAIN prog :
              /\ Phase(prog[k]) # 0
              /\ GroupOf(k) # 0
              /\ k < Len(prog) =>
                    /\ GroupOf(k) <= GroupOf(k + 1)
                    /\ GroupOf(k) = GroupOf(k + 1) =>
                          Phase(prog[k]) < Phase(prog[k + 1])
        /\ \A j \in DOMAIN prog :
              IsStateUpdate(prog[j]) =>
                  LET any == args.monitor_work \/ args.monitor_heat
                  IN  Captured(j) =
                        (IF any /\ SymbolOf(j) \in {"O", "B"} THEN {"old_ke"} ELSE {})
                        \cup (IF args.monitor_work /\ SymbolOf(j) = "A" THEN {"old_pe"} ELSE {})
                        \cup (IF any /\ SymbolOf(j) = "O" THEN {"new_ke"} ELSE {})
                        \cup (IF args.monitor_work /\ SymbolOf(j) = "A" THEN {"new_pe"} ELSE {})

\* C21 witness: a scheme of four symbols with both monitors and both
\* projections, whose O group holds all five kinds of instruction.
C21_Witness ==
    /\ IsLangevin
    /\ Scheme = <<"A", "O", "B", "A">>
    /\ args.monitor_work /\ args.monitor_heat
    /\ args.position_constraints /\ args.velocity_constraints
    /\ \E j \in DOMAIN prog :
          /\ IsStateUpdate(prog[j]) /\ SymbolOf(j) = "O"
          /\ {Phase(prog[k]) : k \in {l \in DOMAIN prog : GroupOf(l) = j}} = 1..5

\* the register that an accumulation expression reads as the energy after the step
NewRegister(expr) == IF expr = "shadow_work + (new_pe - old_pe)" THEN "new_pe" ELSE "new_ke"

\* the energy that register measures, for the current positions and velocities
Measured(reg) ==
    IF reg \in {"old_pe", "new_pe"} THEN PotentialEnergy(x) ELSE KineticEnergy(v)

\* the `old` register is fresh when its step's update is about to run: its
\* capture came just before
OldRegistersFresh ==
    (IsLangevin /\ Running /\ IsStateUpdate(Cur)) =>
        /\ (SymbolOf(pc) = "A" /\ args.monitor_work) => glob.old_pe = Measured("old_pe")
        /\ (SymbolOf(pc) \in {"B", "O"} /\ (args.monitor_work \/ args.monitor_heat)) =>
              glob.old_ke = Measured("old_ke")

\* the `new` register is fresh when the accumulation is about to run: nothing
\* has moved the state since the step's update and its projection
NewRegistersFresh ==
    (IsLangevin /\ Running /\ Cur.var \in {"shadow_work", "heat"}) =>
        glob[NewRegister(Cur.expr)] = Measured(NewRegister(Cur.expr))

\* C22: whenever an accumulation into shadow_work or heat runs, the `old`
\* register holds the energy measured just before the update of that same
\* sub-step and the `new` register the energy measured after it, never a value
\* left over from an earlier sub-step or an earlier step call.
C22_RegistersOfThisStep == OldRegistersFresh /\ NewRegistersFresh

====
